---- MODULE Spec2Model ----
(***************************************************************************)
(* Release-statistics pipeline: the GitHubReleaseScheduler (periodic       *)
(* ingestion of releases into releases.csv) and the GET /api/data handler  *)
(* (date/repository filtering and aggregation of the persisted records).   *)
(*                                                                         *)
(* Time is counted in hours since the epoch (the code counts milliseconds; *)
(* every timestamp of the model is a whole hour).  The process time zone   *)
(* is taken to be UTC.                                                     *)
(***************************************************************************)
EXTENDS Integers, Sequences, FiniteSets, TLC

VARIABLES
    started,    \* startScheduler has been called
    ticks,      \* interval callbacks fired so far
    runs,       \* one record per updateCSV call, in start order
    file,       \* releases.csv: NoFile or its text
    writer,     \* index of the run inside writeFileSync, 0 when none
    query,      \* the GET /api/data request in flight
    now,        \* the wall clock, in hours since the epoch
    traced,     \* the requests and pages of every fetch are recorded
    answered    \* the last response sent, when responses are recorded

vars == <<started, ticks, runs, file, writer, query, now, traced, answered>>

-----------------------------------------------------------------------------
(* Bounds of the model *)

MaxTicks == 1       \* interval callbacks explored
MaxPages == 2       \* non-empty pages of one fetch, one run alone
MaxPagesOverlap == 1 \* non-empty pages of one fetch, overlapping runs

(* Program constants *)

PerPage == 100      \* per_page of listReleases
HoursPerDay == 24   \* 1000 * 60 * 60 * 24 ms

-----------------------------------------------------------------------------
(* Text of a timestamp.  k = "iso": YYYY-MM-DDTHH:00:00Z, "date": YYYY-MM-DD,
   "empty": the empty string, "junk": text Date cannot parse, "null": null /
   undefined (no string at all). *)

Iso(y, m, d, h) == [k |-> "iso", y |-> y, m |-> m, d |-> d, h |-> h]
DateOnly(y, m, d) == [k |-> "date", y |-> y, m |-> m, d |-> d, h |-> 0]
EmptyDate == [k |-> "empty", y |-> 0, m |-> 0, d |-> 0, h |-> 0]
JunkDate == [k |-> "junk", y |-> 0, m |-> 0, d |-> 0, h |-> 0]
NullDate == [k |-> "null", y |-> 0, m |-> 0, d |-> 0, h |-> 0]

Null == "<null>"    \* null / undefined in place of a string

\* value || '' on a string
OrEmpty(v) == IF v = Null THEN "" ELSE v

\* value || '' on a timestamp text
OrEmptyDate(s) == IF s.k = "null" THEN EmptyDate ELSE s

\* truthiness of an optional string parameter (undefined and '' are falsy)
Truthy(s) == s.k \notin {"null", "empty"}

\* Days since 1970-01-01 of a proleptic Gregorian date.
DaysFromCivil(y, m, d) ==
    LET yy == IF m <= 2 THEN y - 1 ELSE y
        era == yy \div 400
        yoe == yy - era * 400
        mp == IF m > 2 THEN m - 3 ELSE m + 9
        doy == (153 * mp + 2) \div 5 + d - 1
        doe == yoe * 365 + yoe \div 4 - yoe \div 100 + doy
    IN  era * 146097 + doe - 719468

\* [y, m, d] of a day number.
CivilFromDays(z0) ==
    LET z == z0 + 719468
        era == z \div 146097
        doe == z - era * 146097
        yoe == (doe - doe \div 1460 + doe \div 36524 - doe \div 146096) \div 365
        doy == doe - (365 * yoe + yoe \div 4 - yoe \div 100)
        mp == (5 * doy + 2) \div 153
        d == doy - (153 * mp + 2) \div 5 + 1
        m == IF mp < 10 THEN mp + 3 ELSE mp - 9
        y == yoe + era * 400 + (IF m <= 2 THEN 1 ELSE 0)
    IN  [y |-> y, m |-> m, d |-> d]

\* A Date object: Invalid Date has valid = FALSE.
InvalidDate == [valid |-> FALSE, time |-> 0]
DateAt(t) == [valid |-> TRUE, time |-> t]

\* new Date(text)
NewDate(s) ==
    IF s.k \in {"iso", "date"}
    THEN DateAt(DaysFromCivil(s.y, s.m, s.d) * HoursPerDay + s.h)
    ELSE InvalidDate

\* (mutant) the upper bound is exclusive
DateLt(a, b) == a.valid /\ b.valid /\ a.time < b.time

\* a >= b and a <= b on Date objects (NaN compares false)
DateGe(a, b) == a.valid /\ b.valid /\ a.time >= b.time
DateLe(a, b) == a.valid /\ b.valid /\ a.time <= b.time

\* A JavaScript number that may be NaN, and its toString().
NaN == [nan |-> TRUE, v |-> 0]
Num(n) == [nan |-> FALSE, v |-> n]
NumToString(x) == IF x.nan THEN "NaN" ELSE ToString(x.v)
\* toString().padStart(2, '0')
PadStart2(x) ==
    IF x.nan THEN "NaN"
    ELSE IF x.v >= 0 /\ x.v < 10 THEN "0" \o ToString(x.v) ELSE ToString(x.v)
BoolToString(b) == IF b THEN "true" ELSE "false"

\* Date getters
GetTime(dt) == IF dt.valid THEN Num(dt.time) ELSE NaN
\* (mutant) getDay() || 0: an invalid date counts as Sunday
GetDayOrZero(dt) == IF dt.valid THEN Num((dt.time \div HoursPerDay + 4) % 7) ELSE Num(0)
GetDay(dt) == IF dt.valid THEN Num((dt.time \div HoursPerDay + 4) % 7) ELSE NaN
GetFullYear(dt) == IF dt.valid THEN Num(CivilFromDays(dt.time \div HoursPerDay).y) ELSE NaN
GetMonth(dt) == IF dt.valid THEN Num(CivilFromDays(dt.time \div HoursPerDay).m - 1) ELSE NaN
GetDate(dt) == IF dt.valid THEN Num(CivilFromDays(dt.time \div HoursPerDay).d) ELSE NaN

-----------------------------------------------------------------------------
(* Configuration and the remote API *)

\* env.REPOSITORIES, each entry "owner/name"
Repositories == << [owner |-> "o", name |-> "a"], [owner |-> "o", name |-> "b"] >>

RepoName(owner, repo) == owner \o "/" \o repo

\* Entries the remote API can list.
RelStable == [tag_name |-> "v1", name |-> "One",
              created_at |-> Iso(2024, 1, 14, 0), published_at |-> Iso(2024, 1, 15, 0),
              body |-> "notes", draft |-> FALSE, prerelease |-> FALSE]
RelDraft == [tag_name |-> "v2", name |-> Null,
             created_at |-> Iso(2024, 3, 9, 0), published_at |-> NullDate,
             body |-> Null, draft |-> TRUE, prerelease |-> TRUE]

RelLate == [tag_name |-> "v3-rc", name |-> "Three",
            created_at |-> Iso(2024, 3, 10, 9), published_at |-> Iso(2024, 3, 10, 15),
            body |-> "", draft |-> FALSE, prerelease |-> TRUE]

\* Non-empty pages listReleases can answer with.
PageChoices == { <<RelStable>>, <<RelDraft>>, <<RelLate>> }
PageChoicesOverlap == { <<RelStable>> }

-----------------------------------------------------------------------------
(* RecordSchema: the ReleaseData record built from one remote entry *)

\* Object.keys of a ReleaseData record, in insertion order.
Fields == << "repository", "tag_name", "name", "created_at", "published_at",
             "created_at_iso", "published_at_iso", "published_year",
             "published_month", "published_day", "weekday", "is_weekend",
             "is_draft", "is_prerelease", "release_note_length",
             "has_release_note", "days_to_publish" >>

\* Math.floor((publishedDate.getTime() - createdDate.getTime()) / day)
DaysToPublish(publishedDate, createdDate) ==
    IF publishedDate.valid /\ createdDate.valid
    THEN Num((publishedDate.time - createdDate.time) \div HoursPerDay)
    ELSE NaN

\* (mutant) the weekend taken as days 6 and 7 (Monday = 1 ... Sunday = 7)
IsWeekendDayFromMonday(weekday) == ~weekday.nan /\ weekday.v \in {6, 7}

\* weekday === 0 || weekday === 6
IsWeekendDay(weekday) == ~weekday.nan /\ weekday.v \in {0, 6}

\* The callback of releases.data.map in fetchReleases.
MapRelease(owner, repo, release) ==
    LET createdDate == NewDate(OrEmptyDate(release.created_at))
        publishedDate == NewDate(OrEmptyDate(release.published_at))
        weekday == GetDay(publishedDate)
        month == GetMonth(publishedDate)
    IN  [ repository |-> RepoName(owner, repo),
          tag_name |-> release.tag_name,
          name |-> OrEmpty(release.name),
          created_at |-> OrEmptyDate(release.created_at),
          published_at |-> OrEmptyDate(release.published_at),
          created_at_iso |-> OrEmptyDate(release.created_at),
          published_at_iso |-> OrEmptyDate(release.published_at),
          published_year |-> NumToString(GetFullYear(publishedDate)),
          published_month |-> PadStart2(IF month.nan THEN NaN ELSE Num(month.v + 1)),
          published_day |-> PadStart2(GetDate(publishedDate)),
          weekday |-> NumToString(weekday),
          is_weekend |-> BoolToString(IsWeekendDay(weekday)),
          is_draft |-> BoolToString(release.draft),
          is_prerelease |-> BoolToString(release.prerelease),
          release_note_length |-> NumToString(Num(Len(OrEmpty(release.body)))),
          has_release_note |-> BoolToString(Len(OrEmpty(release.body)) > 0),
          days_to_publish |-> NumToString(DaysToPublish(publishedDate, createdDate)) ]

\* releases.data.map(...) over one page
MapPage(owner, repo, page) ==
    [j \in 1..Len(page) |-> MapRelease(owner, repo, page[j])]

-----------------------------------------------------------------------------
(* Store: the text of releases.csv.  A text is a sequence of lines, a line a
   sequence of cells, a cell a value with or without surrounding quotes; the
   empty text '' has no line.  torn: the text ends in the middle of a row.
   by: the run whose writeFileSync call left the text (0: an earlier process). *)

NoFile == [exists |-> FALSE, lines |-> <<>>, torn |-> FALSE, by |-> 0]
FileOf(lines, r) == [exists |-> TRUE, lines |-> lines, torn |-> FALSE, by |-> r]

\* Object.keys(allReleases[0] || {}).join(',')
HeaderLine(allReleases) ==
    IF allReleases = <<>> THEN <<>>
    ELSE [j \in 1..Len(Fields) |-> [q |-> FALSE, v |-> Fields[j]]]

\* Object.values(release).map(value => `"${value}"`).join(',')
RowLine(release) ==
    [j \in 1..Len(Fields) |-> [q |-> TRUE, v |-> release[Fields[j]]]]

\* [headers, ...rows].join('\n'): a lone empty header line is the empty text
CsvLines(allReleases) ==
    IF allReleases = <<>> THEN <<>>
    ELSE <<HeaderLine(allReleases)>> \o
         [j \in 1..Len(allReleases) |-> RowLine(allReleases[j])]

\* A failed write leaves a prefix of the text: whole lines, or a torn row.
TornTexts(lines, r) ==
    { [exists |-> TRUE, lines |-> SubSeq(lines, 1, k), torn |-> t, by |-> r] :
        k \in 0..(Len(lines) - 1), t \in BOOLEAN }
    \cup { FileOf(<<>>, r) }

-----------------------------------------------------------------------------
(* Ingestor: one record per updateCSV call *)

Request(page) == [page |-> page, per_page |-> PerPage]

NewRun ==
    [ pc |-> "start", repo |-> 0, page |-> 0,
      acc |-> <<>>,         \* fetchReleases' allReleases
      all |-> <<>>,         \* updateCSV's allReleases
      reqs |-> <<>>,        \* (traced) requests sent by the fetch in progress
      got |-> <<>>,         \* (traced) pages received by the fetch in progress
      rets |-> <<>>,        \* (traced) what each finished fetch returned
      log |-> <<>>,         \* calls, returns and writes, in order
      writes |-> 0,         \* writeFileSync calls
      pre |-> NoFile,       \* inside writeFileSync: the file when it was called
      outcome |-> "none" ]  \* "written" / "writeFailed" once the run is over

\* fetchReleases(owner, repo) up to its first await: page 1 is requested.
FetchCall(run, i) ==
    [run EXCEPT !.pc = "fetching", !.repo = i, !.page = 1, !.acc = <<>>,
                !.reqs = IF traced THEN <<Request(1)>> ELSE <<>>, !.got = <<>>,
                !.log = Append(@, <<"call", i>>)]

\* fetchReleases returns `result`; updateCSV pushes it onto allReleases.
FetchReturn(run, result, failed) ==
    [run EXCEPT !.all = @ \o result,
                !.rets = IF traced
                         THEN Append(@, [failed |-> failed, records |-> result,
                                         reqs |-> run.reqs,
                                         got |-> IF failed THEN <<>> ELSE run.got])
                         ELSE @,
                !.acc = <<>>, !.reqs = <<>>, !.got = <<>>, !.page = 0,
                !.log = Append(@, <<"return", run.repo>>)]

\* writeFileSync, first half: open(path, 'w') truncates the file, or throws
\* and the catch of updateCSV logs the error and the run ends.
WriteFileOpen(base, r, run) ==
    LET called == [run EXCEPT !.writes = @ + 1, !.log = Append(@, <<"write">>)]
    IN  \/ /\ runs' = [base EXCEPT ![r] = [called EXCEPT !.pc = "writing", !.pre = file]]
           /\ file' = FileOf(<<>>, r)
           /\ writer' = r
        \/ /\ runs' = [base EXCEPT ![r] =
                         [called EXCEPT !.pc = "done", !.outcome = "writeFailed"]]
           /\ UNCHANGED <<file, writer>>

\* (mutant) Object.keys(allReleases[0]) throws when there is no record
ContinueKeysThrow(base, r, run) ==
    IF run.repo < Len(Repositories)
    THEN /\ runs' = [base EXCEPT ![r] = FetchCall(run, run.repo + 1)]
         /\ UNCHANGED <<file, writer>>
    ELSE IF run.all = <<>>
    THEN /\ runs' = [base EXCEPT ![r] = [run EXCEPT !.pc = "done", !.outcome = "threw"]]
         /\ UNCHANGED <<file, writer>>
    ELSE WriteFileOpen(base, r, run)

\* The for loop of updateCSV after a fetch has returned (or at the start):
\* the next repository is fetched, or the CSV is built and written.
Continue(base, r, run) ==
    IF run.repo < Len(Repositories)
    THEN /\ runs' = [base EXCEPT ![r] = FetchCall(run, run.repo + 1)]
         /\ UNCHANGED <<file, writer>>
    ELSE WriteFileOpen(base, r, run)

\* updateCSV() called: it runs until its first await.
UpdateCSV == Continue(Append(runs, NewRun), Len(runs) + 1, NewRun)

\* startScheduler: the first run starts at once, the interval is armed.
StartScheduler ==
    /\ ~started
    /\ started' = TRUE
    /\ UpdateCSV
    /\ UNCHANGED <<traced, answered, ticks, query, now>>

\* (mutant) a tick is skipped while a run is in progress
IntervalTickSkipsIfBusy ==
    /\ started
    /\ writer = 0
    /\ ticks < MaxTicks
    /\ ticks' = ticks + 1
    /\ IF \E r \in DOMAIN runs : runs[r].pc # "done"
       THEN UNCHANGED <<runs, file, writer>>
       ELSE UpdateCSV
    /\ UNCHANGED <<traced, answered, started, query, now>>

\* The setInterval callback: a run starts at every tick.
IntervalTick ==
    /\ started
    /\ writer = 0
    /\ ticks < MaxTicks
    /\ ticks' = ticks + 1
    /\ UpdateCSV
    /\ UNCHANGED <<traced, answered, started, query, now>>

\* (mutant) the mapped page replaces allReleases instead of being appended
ListReleasesPageOverwrites(r, choices, maxPages) ==
    /\ writer = 0
    /\ runs[r].pc = "fetching"
    /\ runs[r].page <= maxPages
    /\ \E data \in choices :
          LET run == runs[r]
              cfg == Repositories[run.repo]
          IN  runs' = [runs EXCEPT ![r] =
                [run EXCEPT !.acc = MapPage(cfg.owner, cfg.name, data),
                            !.got = IF traced THEN Append(@, data) ELSE @,
                            !.page = @ + 1,
                            !.pc = "sleeping"]]
    /\ UNCHANGED <<traced, answered, started, ticks, file, writer, query, now>>

\* listReleases answers with a non-empty page: it is mapped and appended, the
\* page number advances and the fetch waits for the pacing delay.
ListReleasesPage(r, choices, maxPages) ==
    /\ writer = 0
    /\ runs[r].pc = "fetching"
    /\ runs[r].page <= maxPages
    /\ \E data \in choices :
          LET run == runs[r]
              cfg == Repositories[run.repo]
          IN  runs' = [runs EXCEPT ![r] =
                [run EXCEPT !.acc = @ \o MapPage(cfg.owner, cfg.name, data),
                            !.got = IF traced THEN Append(@, data) ELSE @,
                            !.page = @ + 1,
                            !.pc = "sleeping"]]
    /\ UNCHANGED <<traced, answered, started, ticks, file, writer, query, now>>

\* The pacing delay is over: the loop requests the next page.
PacingDelayOver(r) ==
    /\ writer = 0
    /\ runs[r].pc = "sleeping"
    /\ runs' = [runs EXCEPT ![r] =
          [@ EXCEPT !.pc = "fetching",
                    !.reqs = IF traced THEN Append(@, Request(runs[r].page)) ELSE @]]
    /\ UNCHANGED <<traced, answered, started, ticks, file, writer, query, now>>

\* (mutant) hasMore is not cleared: after an empty page the loop goes on
ListReleasesEmptyGoesOn(r) ==
    /\ writer = 0
    /\ runs[r].pc = "fetching"
    /\ runs' = [runs EXCEPT ![r] = [@ EXCEPT !.pc = "sleeping"]]
    /\ UNCHANGED <<traced, answered, started, ticks, file, writer, query, now>>

\* listReleases answers with an empty page: the fetch returns what it has.
ListReleasesEmpty(r) ==
    /\ writer = 0
    /\ runs[r].pc = "fetching"
    /\ LET run == [runs[r] EXCEPT !.got = IF traced THEN Append(@, <<>>) ELSE @]
       IN  Continue(runs, r, FetchReturn(run, run.acc, FALSE))
    /\ UNCHANGED <<traced, answered, started, ticks, query, now>>

\* (mutant) the catch of fetchReleases rethrows: updateCSV's catch ends the run
ListReleasesFailsRethrows(r) ==
    /\ writer = 0
    /\ runs[r].pc = "fetching"
    /\ runs' = [runs EXCEPT ![r] = [@ EXCEPT !.pc = "done", !.outcome = "threw"]]
    /\ UNCHANGED <<traced, answered, started, ticks, file, writer, query, now>>

\* listReleases throws: the catch of fetchReleases returns [].
ListReleasesFails(r) ==
    /\ writer = 0
    /\ runs[r].pc = "fetching"
    /\ Continue(runs, r, FetchReturn(runs[r], <<>>, TRUE))
    /\ UNCHANGED <<traced, answered, started, ticks, query, now>>

\* (mutant) the text is appended to what the file held (appendFileSync)
WriteFileDataAppends(r) ==
    /\ writer = r
    /\ file' = FileOf(runs[r].pre.lines \o CsvLines(runs[r].all), r)
    /\ runs' = [runs EXCEPT ![r] =
          [@ EXCEPT !.pc = "done", !.pre = NoFile, !.outcome = "written"]]
    /\ writer' = 0
    /\ UNCHANGED <<traced, answered, started, ticks, query, now>>

\* writeFileSync, second half: the text is written and the file closed, or
\* the write throws (ENOSPC, EIO) and updateCSV's catch logs it.  With no
\* byte to write there is no write that can throw.
WriteFileData(r) ==
    /\ writer = r
    /\ LET lines == CsvLines(runs[r].all)
           over == [runs[r] EXCEPT !.pc = "done", !.pre = NoFile]
       IN  \/ /\ file' = FileOf(lines, r)
              /\ runs' = [runs EXCEPT ![r] = [over EXCEPT !.outcome = "written"]]
           \/ /\ lines # <<>>
              /\ file' \in TornTexts(lines, r)
              /\ runs' = [runs EXCEPT ![r] = [over EXCEPT !.outcome = "writeFailed"]]
    /\ writer' = 0
    /\ UNCHANGED <<traced, answered, started, ticks, query, now>>

-----------------------------------------------------------------------------
(* QueryEngine: GET /api/data *)

\* The quote character of csv-parse.
DoubleQuote == "\""

\* Columns whose text comes from the remote as free text; every other column
\* holds a timestamp, a number or a boolean, whose text has no quote.
FreeTextFields == {"repository", "tag_name", "name"}

RECURSIVE Unquote(_)
\* csv-parse on the characters between the quotes of a field: commas and line
\* breaks belong to the value, "" is one quote, and any other quote ends the
\* field where the writer did not end it, which makes csv-parse throw
\* (invalid closing quote, invalid record length or quote not closed).
Unquote(text) ==
    IF text = "" THEN [ok |-> TRUE, v |-> ""]
    ELSE IF Head(text) # DoubleQuote
    THEN LET rest == Unquote(Tail(text)) IN [ok |-> rest.ok, v |-> Head(text) \o rest.v]
    ELSE IF Len(text) >= 2 /\ Head(Tail(text)) = DoubleQuote
    THEN LET rest == Unquote(Tail(Tail(text)))
         IN  [ok |-> rest.ok, v |-> DoubleQuote \o rest.v]
    ELSE [ok |-> FALSE, v |-> ""]

\* One field of a line as csv-parse reads it.
ParseCell(column, cell) ==
    IF cell.q /\ column \in FreeTextFields
    THEN Unquote(cell.v)
    ELSE [ok |-> TRUE, v |-> cell.v]

\* parse(csvData, { columns: true }): the first line names the columns, every
\* other line is one record; a row cut short makes csv-parse throw.  A text
\* cut inside its first line has a header and no record.
ParseCSV(f) ==
    IF f.torn /\ Len(f.lines) >= 1 THEN [ok |-> FALSE, records |-> <<>>]
    ELSE IF Len(f.lines) = 0 THEN [ok |-> TRUE, records |-> <<>>]
    ELSE LET header == f.lines[1]
             Column(j) == ParseCell("", header[j]).v
             cols == { Column(j) : j \in DOMAIN header }
             Fields1(line) ==
                 [c \in cols |->
                    ParseCell(c, line[CHOOSE j \in DOMAIN header : Column(j) = c])]
             parsed == [j \in 1..(Len(f.lines) - 1) |-> Fields1(f.lines[j + 1])]
         IN  IF \A j \in DOMAIN parsed : \A c \in cols : parsed[j][c].ok
             THEN [ok |-> TRUE,
                   records |-> [j \in DOMAIN parsed |-> [c \in cols |-> parsed[j][c].v]]]
             ELSE [ok |-> FALSE, records |-> <<>>]

\* request.query
Params(startDate, endDate, repository) ==
    [startDate |-> startDate, endDate |-> endDate, repository |-> repository]
NoParams == Params(NullDate, NullDate, Null)

\* (mutant) the filter drops what lies outside the bounds: !(d < start) && !(d > end)
DateFilterKeepsUndated(releases, p, clock) ==
    IF Truthy(p.startDate) \/ Truthy(p.endDate)
    THEN SelectSeq(releases, LAMBDA release :
            LET publishedDate == NewDate(release.published_at)
                start == IF Truthy(p.startDate) THEN NewDate(p.startDate) ELSE DateAt(0)
                end == IF Truthy(p.endDate) THEN NewDate(p.endDate) ELSE DateAt(clock)
            IN  ~DateLt(publishedDate, start) /\ ~DateLt(end, publishedDate))
    ELSE releases

\* (mutant) the upper bound is the current time even when endDate is given
DateFilterEndIsNow(releases, p, clock) ==
    IF Truthy(p.startDate) \/ Truthy(p.endDate)
    THEN SelectSeq(releases, LAMBDA release :
            LET publishedDate == NewDate(release.published_at)
                start == IF Truthy(p.startDate) THEN NewDate(p.startDate) ELSE DateAt(0)
                end == DateAt(clock)
            IN  DateGe(publishedDate, start) /\ DateLe(publishedDate, end))
    ELSE releases

\* The date filter of the handler; `clock` is what new Date() gives.
DateFilter(releases, p, clock) ==
    IF Truthy(p.startDate) \/ Truthy(p.endDate)
    THEN SelectSeq(releases, LAMBDA release :
            LET publishedDate == NewDate(release.published_at)
                start == IF Truthy(p.startDate) THEN NewDate(p.startDate) ELSE DateAt(0)
                end == IF Truthy(p.endDate) THEN NewDate(p.endDate) ELSE DateAt(clock)
            IN  DateGe(publishedDate, start) /\ DateLe(publishedDate, end))
    ELSE releases

\* (mutant) "all" is not a sentinel: it is matched like any repository name
RepositoryFilterAllIsName(releases, p) ==
    IF p.repository \notin {Null, ""}
    THEN SelectSeq(releases, LAMBDA release : release.repository = p.repository)
    ELSE releases

\* The repository filter of the handler.
RepositoryFilter(releases, p) ==
    IF p.repository \notin {Null, "", "all"}
    THEN SelectSeq(releases, LAMBDA release : release.repository = p.repository)
    ELSE releases

RECURSIVE Distinct(_)
\* Array.from(new Set(values)): first occurrences, in order
Distinct(values) ==
    IF values = <<>> THEN <<>>
    ELSE LET rest == Distinct(SubSeq(values, 1, Len(values) - 1))
             last == values[Len(values)]
         IN  IF \E j \in DOMAIN rest : rest[j] = last THEN rest ELSE Append(rest, last)

\* `${date.getFullYear()}-${String(date.getMonth() + 1).padStart(2, '0')}`, with
\* its rank under localeCompare (digits sort before "NaN-NaN").
MonthKey(release) ==
    LET date == NewDate(release.published_at)
        year == GetFullYear(date)
        month == GetMonth(date)
    IN  [text |-> NumToString(year) \o "-" \o
                  PadStart2(IF month.nan THEN NaN ELSE Num(month.v + 1)),
         rank |-> IF date.valid THEN year.v * 12 + month.v ELSE 10000 * 12]

\* (mutant) a row has only the repositories counted in its month: no `|| 0`
processMonthlyDataSparse(releases, repositories) ==
    LET keys == Distinct([j \in DOMAIN releases |-> MonthKey(releases[j])])
        Counted(key) == { releases[j].repository : j \in
                            { i \in DOMAIN releases : MonthKey(releases[i]) = key } }
        Row(key) ==
            [c \in {"month"} \cup Counted(key) |->
                IF c \in Counted(key)
                THEN Len(SelectSeq(releases, LAMBDA release :
                        MonthKey(release) = key /\ release.repository = c))
                ELSE key.text]
        sorted == SortSeq(keys, LAMBDA a, b : a.rank < b.rank)
    IN  [j \in DOMAIN sorted |-> Row(sorted[j])]

processMonthlyData(releases, repositories) ==
    LET keys == Distinct([j \in DOMAIN releases |-> MonthKey(releases[j])])
        repos == { repositories[j] : j \in DOMAIN repositories }
        Row(key) ==
            [c \in {"month"} \cup repos |->
                IF c \in repos
                THEN Len(SelectSeq(releases, LAMBDA release :
                        MonthKey(release) = key /\ release.repository = c))
                ELSE key.text]
        sorted == SortSeq(keys, LAMBDA a, b : a.rank < b.rank)
    IN  [j \in DOMAIN sorted |-> Row(sorted[j])]

\* parseInt(text, 10) of a weekday cell
ParseInt(text) ==
    IF \E n \in 0..9 : ToString(n) = text
    THEN Num(CHOOSE n \in 0..9 : ToString(n) = text)
    ELSE NaN

\* weekdayNames: Sunday ... Saturday (Korean day names in the code)
weekdayNames == <<"Sun", "Mon", "Tue", "Wed", "Thu", "Fri", "Sat">>

\* Object.entries(weekdayCounts): integer keys ascending, then the other keys
\* in insertion order; a key without a weekday name gets name undefined.
processWeekdayData(releases) ==
    LET keys == Distinct([j \in DOMAIN releases |-> releases[j].weekday])
        ints == SortSeq(SelectSeq(keys, LAMBDA k : ~ParseInt(k).nan),
                        LAMBDA a, b : ParseInt(a).v < ParseInt(b).v)
        others == SelectSeq(keys, LAMBDA k : ParseInt(k).nan)
        ordered == ints \o others
        Name(k) == IF ~ParseInt(k).nan /\ ParseInt(k).v + 1 \in DOMAIN weekdayNames
                   THEN weekdayNames[ParseInt(k).v + 1] ELSE Null
    IN  [j \in DOMAIN ordered |->
            [name |-> Name(ordered[j]),
             value |-> Len(SelectSeq(releases, LAMBDA release : release.weekday = ordered[j]))]]

\* The three bucket names stand for the Korean labels of the code, in order.
processReleaseTypeData(releases) ==
    LET regularReleases == Len(SelectSeq(releases, LAMBDA item :
                              item.is_prerelease = "false" /\ item.is_draft = "false"))
        preReleases == Len(SelectSeq(releases, LAMBDA item : item.is_prerelease = "true"))
        drafts == Len(SelectSeq(releases, LAMBDA item : item.is_draft = "true"))
    IN  << [name |-> "regular", value |-> regularReleases],
           [name |-> "prerelease", value |-> preReleases],
           [name |-> "draft", value |-> drafts] >>

\* (mutant) Math.floor in place of Math.round
RoundDivFloors(a, b) == a \div b

\* Math.round(a / b) for a >= 0, b > 0
RoundDiv(a, b) == (2 * a + b) \div (2 * b)

processStatistics(releases) ==
    LET dates == [j \in DOMAIN releases |-> NewDate(releases[j].published_at)]
        sortedDates == SortSeq(SelectSeq(dates, LAMBDA date : date.valid),
                               LAMBDA a, b : a.time < b.time)
        n == Len(sortedDates)
        averageReleaseInterval ==
            IF n > 1
            THEN RoundDiv(sortedDates[n].time - sortedDates[1].time, HoursPerDay * (n - 1))
            ELSE 0
    IN  [totalReleases |-> Len(releases),
         preReleases |-> Len(SelectSeq(releases, LAMBDA item : item.is_prerelease = "true")),
         averageReleaseInterval |-> averageReleaseInterval]

\* The payload returned when releases.csv does not exist.
NoFilePayload ==
    [monthlyData |-> <<>>, weekdayData |-> <<>>, releaseTypeData |-> <<>>,
     statistics |-> [totalReleases |-> 0, preReleases |-> 0, averageReleaseInterval |-> 0],
     repositories |-> <<>>]

\* dashboardData for the filtered releases
DashboardData(releases) ==
    LET repositories == Distinct([j \in DOMAIN releases |-> releases[j].repository])
    IN  [monthlyData |-> processMonthlyData(releases, repositories),
         weekdayData |-> processWeekdayData(releases),
         releaseTypeData |-> processReleaseTypeData(releases),
         statistics |-> processStatistics(releases),
         repositories |-> repositories]

NoQuery == [pc |-> "idle"]

\* A finished request: status 200 with the payload, or 500 with the error
\* object.  data: the text it read; releases: the filtered records the payload
\* was computed from.
Done(p, status, body, data, releases) ==
    [pc |-> "done", params |-> p, status |-> status, body |-> body,
     data |-> data, releases |-> releases]

ErrorBody == [error |-> "failed to load data"]

\* The handler up to its first await: no file, no data; else readFile starts.
QueryStart(p) ==
    /\ writer = 0
    /\ query.pc = "idle"
    /\ query' = IF ~file.exists
                THEN Done(p, 200, NoFilePayload, file, <<>>)
                ELSE [pc |-> "reading", params |-> p]
    /\ UNCHANGED <<traced, answered, started, ticks, runs, file, writer, now>>

\* fs.promises.readFile reads the file on a pool thread, also while the main
\* thread is inside writeFileSync.  during: the run writing at that moment.
QueryRead ==
    /\ query.pc = "reading"
    /\ query' = [pc |-> "loaded", params |-> query.params, data |-> file, during |-> writer]
    /\ UNCHANGED <<traced, answered, started, ticks, runs, file, writer, now>>

\* (mutant) no try/catch around the parse: what was built so far is returned
QueryFinishPartial ==
    /\ writer = 0
    /\ query.pc = "loaded"
    /\ LET parsed == ParseCSV(query.data)
           releases == RepositoryFilter(DateFilter(parsed.records, query.params, now),
                                        query.params)
       IN  query' = IF parsed.ok
                    THEN Done(query.params, 200, DashboardData(releases), query.data, releases)
                    ELSE Done(query.params, 200,
                              [monthlyData |-> <<>>, repositories |-> <<>>], query.data, <<>>)
    /\ UNCHANGED <<traced, answered, started, ticks, runs, file, writer, now>>

\* The handler after readFile: parse, filter, aggregate, respond.
QueryFinish ==
    /\ writer = 0
    /\ query.pc = "loaded"
    /\ LET parsed == ParseCSV(query.data)
           releases == RepositoryFilter(DateFilter(parsed.records, query.params, now),
                                        query.params)
       IN  query' = IF parsed.ok
                    THEN Done(query.params, 200, DashboardData(releases), query.data, releases)
                    ELSE Done(query.params, 500, ErrorBody, query.data, <<>>)
    /\ UNCHANGED <<traced, answered, started, ticks, runs, file, writer, now>>

\* Responses are not recorded / are recorded and none has been sent yet.
Unrecorded == [on |-> FALSE, last |-> <<>>]
NoAnswer == [on |-> TRUE, last |-> <<>>]

\* The response has been sent (at: the clock of the request).
QueryClose ==
    /\ writer = 0
    /\ query.pc = "done"
    /\ query' = NoQuery
    /\ answered' = IF answered.on
                   THEN [answered EXCEPT !.last = << [params |-> query.params,
                                                      status |-> query.status,
                                                      body |-> query.body,
                                                      data |-> query.data,
                                                      releases |-> query.releases,
                                                      at |-> now] >>]
                   ELSE answered
    /\ UNCHANGED <<traced, started, ticks, runs, file, writer, now>>

-----------------------------------------------------------------------------

\* The clock when the process starts.
StartTime == NewDate(Iso(2024, 6, 1, 0)).time

\* releases.csv as an earlier process can have left it.
EarlierFiles ==
    { NoFile, FileOf(CsvLines(MapPage("o", "b", <<RelStable>>)), 0) }

Init ==
    /\ started = FALSE
    /\ ticks = 0
    /\ runs = <<>>
    /\ file \in EarlierFiles
    /\ writer = 0
    /\ query = NoQuery
    /\ now = StartTime
    /\ traced = FALSE
    /\ answered = Unrecorded

Next ==
    \/ StartScheduler
    \/ IntervalTick
    \/ \E r \in DOMAIN runs : ListReleasesPage(r, PageChoicesOverlap, MaxPagesOverlap)
    \/ \E r \in DOMAIN runs : PacingDelayOver(r)
    \/ \E r \in DOMAIN runs : ListReleasesEmpty(r)
    \/ \E r \in DOMAIN runs : ListReleasesFails(r)
    \/ \E r \in DOMAIN runs : WriteFileData(r)

Spec == Init /\ [][Next]_vars

\* One ingestion run, against a remote with more pages and entries, and the
\* requests served meanwhile.
NextFetch ==
    \/ StartScheduler
    \/ \E r \in DOMAIN runs : ListReleasesPage(r, PageChoices, MaxPages)
    \/ \E r \in DOMAIN runs : PacingDelayOver(r)
    \/ \E r \in DOMAIN runs : ListReleasesEmpty(r)
    \/ \E r \in DOMAIN runs : ListReleasesFails(r)
    \/ \E r \in DOMAIN runs : WriteFileData(r)
    \/ QueryStart(NoParams)
    \/ QueryRead
    \/ QueryFinish
    \/ QueryClose

InitFetch ==
    /\ started = FALSE
    /\ ticks = 0
    /\ runs = <<>>
    /\ file \in EarlierFiles
    /\ writer = 0
    /\ query = NoQuery
    /\ now = StartTime
    /\ traced = TRUE
    /\ answered = Unrecorded

SpecFetch == InitFetch /\ [][NextFetch]_vars

-----------------------------------------------------------------------------
(* Fetcher and Ingestor properties *)

IsPrefix(a, b) == Len(a) <= Len(b) /\ SubSeq(b, 1, Len(a)) = a

RECURSIVE ConcatPages(_, _, _)
\* The mapped entries of the pages, in page order.
ConcatPages(owner, repo, pages) ==
    IF pages = <<>> THEN <<>>
    ELSE MapPage(owner, repo, Head(pages)) \o ConcatPages(owner, repo, Tail(pages))

RECURSIVE ConcatRecords(_)
\* What the finished fetches returned, in repository order.
ConcatRecords(rets) ==
    IF rets = <<>> THEN <<>> ELSE Head(rets).records \o ConcatRecords(Tail(rets))

\* Requests for pages 1..n, each with per_page = 100.
PagesInOrder(reqs) ==
    \A j \in DOMAIN reqs : reqs[j] = [page |-> j, per_page |-> 100]

\* C1: fetchReleases requests pages 1, 2, 3, ... in order with per_page = 100,
\* stops at the first empty page (no request follows an empty page, and only
\* an empty page ends a fetch that did not fail), and then returns the mapped
\* entries of the non-empty pages it received, concatenated in page order.
C1_FetchPaginates ==
    traced => \A r \in DOMAIN runs :
        LET run == runs[r] IN
        /\ PagesInOrder(run.reqs)
        /\ \A j \in DOMAIN run.got : run.got[j] # <<>>
        /\ run.pc = "fetching" => Len(run.reqs) = Len(run.got) + 1
        /\ run.pc = "sleeping" => Len(run.reqs) = Len(run.got)
        /\ \A i \in DOMAIN run.rets :
              LET ret == run.rets[i]
                  n == Len(ret.got)
                  cfg == Repositories[i]
              IN  ~ret.failed =>
                    /\ PagesInOrder(ret.reqs)
                    /\ Len(ret.reqs) = n
                    /\ ret.got[n] = <<>>
                    /\ \A j \in 1..(n - 1) : ret.got[j] # <<>>
                    /\ ret.records =
                         ConcatPages(cfg.owner, cfg.name, SubSeq(ret.got, 1, n - 1))

\* A fetch returned after two non-empty pages with different entries.
C1_Witness ==
    \E r \in DOMAIN runs : \E i \in DOMAIN runs[r].rets :
        LET ret == runs[r].rets[i] IN
        /\ ~ret.failed
        /\ Len(ret.got) = 3
        /\ ret.got[1] # ret.got[2]
        /\ Len(ret.records) = 2

\* C2: a failed page request, on page 1 or later, makes fetchReleases return
\* [] for that repository; the run goes on through every repository, makes
\* its write, and the text written holds the records of the other fetches.
C2_FailureIsolated ==
    traced => \A r \in DOMAIN runs :
        LET run == runs[r] IN
        /\ \A i \in DOMAIN run.rets : run.rets[i].failed => run.rets[i].records = <<>>
        /\ run.all = ConcatRecords(run.rets)
        /\ run.pc \in {"writing", "done"} =>
              /\ Len(run.rets) = Len(Repositories)
              /\ run.writes = 1
              /\ run.outcome \in {"none", "written", "writeFailed"}
        /\ (run.outcome = "written" /\ file.by = r) =>
              file.lines = CsvLines(ConcatRecords(run.rets))

\* The first repository failed on its second page, the second one did not
\* fail, and its records are in the file.
C2_Witness ==
    \E r \in DOMAIN runs :
        LET run == runs[r] IN
        /\ run.outcome = "written"
        /\ file.by = r
        /\ Len(run.rets) = 2
        /\ run.rets[1].failed /\ Len(run.rets[1].reqs) = 2
        /\ ~run.rets[2].failed /\ run.rets[2].records # <<>>
        /\ Len(file.lines) = 1 + Len(run.rets[2].records)

\* call 1, return 1, call 2, return 2, ..., write
IdealLog ==
    LET n == Len(Repositories) IN
    [k \in 1..(2 * n + 1) |->
        IF k = 2 * n + 1 THEN <<"write">>
        ELSE IF k % 2 = 1 THEN <<"call", (k + 1) \div 2>>
        ELSE <<"return", k \div 2>>]

\* C3: within a run the repositories are fetched one after another in the
\* configured order, the store is written once, after the last fetch has
\* returned, and a successful write leaves exactly the text of that run's
\* concatenated records in the file.
C3_SequentialSingleWrite ==
    \A r \in DOMAIN runs :
        LET run == runs[r] IN
        /\ IsPrefix(run.log, IdealLog)
        /\ run.pc \in {"fetching", "sleeping"} => run.log[Len(run.log)] = <<"call", run.repo>>
        /\ run.pc \in {"writing", "done"} => run.log = IdealLog /\ run.writes = 1
        /\ run.pc \notin {"writing", "done"} => run.writes = 0
        /\ (run.outcome = "written" /\ file.by = r) =>
              file = FileOf(CsvLines(run.all), r)

\* A run replaced a non-empty earlier text by its own, different records.
C3_Witness ==
    \E r \in DOMAIN runs :
        LET run == runs[r] IN
        /\ run.outcome = "written"
        /\ file.by = r
        /\ Len(run.all) = 2
        /\ run.all[1].repository = "o/a"
        /\ run.all[2].repository = "o/b"
        /\ r > 1 /\ runs[r - 1].outcome = "written" /\ Len(runs[r - 1].all) = 1

-----------------------------------------------------------------------------
(* Scheduler and store properties *)

\* C4: startScheduler starts a run at once and every interval tick starts one
\* more, whether or not an earlier run is over: the runs started are always
\* one more than the ticks fired.
C4_RunPerTick ==
    /\ ~started => runs = <<>> /\ ticks = 0
    /\ started => Len(runs) = ticks + 1

\* Two runs are in progress at the same time.
C4_Witness ==
    \E r1, r2 \in DOMAIN runs :
        /\ r1 < r2
        /\ runs[r1].pc \in {"fetching", "sleeping"}
        /\ runs[r2].pc \in {"fetching", "sleeping"}

\* The bytes of the file, whoever wrote them.
Text(f) == [exists |-> f.exists, lines |-> f.lines, torn |-> f.torn]

\* What the file holds for a reader: its records, or a text that does not parse.
Persisted(f) == ParseCSV(f)

\* C5: when the store write of a run fails, the run ends without throwing,
\* the persisted records are those the file held when the write was attempted,
\* and no run is started by the failure (runs start at ticks only).
C5_FailedWriteKeepsContent ==
    [][\A r \in DOMAIN runs :
         (runs[r].outcome = "none" /\ runs'[r].outcome # "none" /\ runs'[r].outcome # "written")
         => /\ runs'[r].outcome = "writeFailed"
            /\ runs'[r].pc = "done"
            /\ Len(runs') = Len(runs)
            /\ Persisted(file') =
                 Persisted(IF runs[r].pc = "writing" THEN runs[r].pre ELSE file)]_vars

\* The records a text holds for the query engine.
RecordsOf(f) == ParseCSV(f).records

\* C6: a query that reads the store while a run is writing it sees the
\* complete previous record set or the complete new one.
C6_ReaderSeesCompleteSet ==
    (query.pc = "loaded" /\ query.during # 0 /\ writer = query.during) =>
        LET run == runs[writer]
            new == FileOf(CsvLines(run.all), writer)
        IN  /\ ParseCSV(query.data).ok
            /\ \/ RecordsOf(query.data) = RecordsOf(run.pre)
               \/ RecordsOf(query.data) = RecordsOf(new)

\* C7: every successful response has the three releaseTypeData entries, in
\* the order regular, prerelease, draft, whatever the state of the store.
C7_ThreeReleaseTypes ==
    (query.pc = "done" /\ query.status = 200) =>
        /\ Len(query.body.releaseTypeData) = 3
        /\ query.body.releaseTypeData[1].name = "regular"
        /\ query.body.releaseTypeData[2].name = "prerelease"
        /\ query.body.releaseTypeData[3].name = "draft"

AllEmptyPayload(body) ==
    /\ body.monthlyData = <<>>
    /\ body.weekdayData = <<>>
    /\ body.repositories = <<>>
    /\ body.statistics =
         [totalReleases |-> 0, preReleases |-> 0, averageReleaseInterval |-> 0]

\* C8: a run with no record at all (nothing to list, or every fetch failed)
\* still makes its store write and ends without throwing; a query that reads
\* what it wrote succeeds with the all-empty payload.
C8_EmptyRunStillWrites ==
    \A r \in DOMAIN runs :
        LET run == runs[r] IN
        (run.pc = "done" /\ run.all = <<>>) =>
            /\ run.writes = 1
            /\ run.outcome \in {"written", "writeFailed"}
            /\ (run.outcome = "written" /\ query.pc = "done" /\ query.data.exists
                    /\ query.data.by = r) =>
                  /\ query.status = 200
                  /\ AllEmptyPayload(query.body)

\* Every fetch of a run failed, the run wrote, and a query read that text.
C8_Witness ==
    \E r \in DOMAIN runs :
        LET run == runs[r] IN
        /\ run.pc = "done" /\ run.all = <<>> /\ run.outcome = "written"
        /\ \A i \in DOMAIN run.rets : run.rets[i].failed
        /\ file.by = r /\ Text(file) = Text(FileOf(<<>>, r))
        /\ query.pc = "done" /\ query.data = file /\ query.status = 200

-----------------------------------------------------------------------------
(* The query engine over the record sets ingestion can have persisted *)

RelFuture == [tag_name |-> "v4", name |-> "Four",
              created_at |-> Iso(2024, 12, 20, 0), published_at |-> Iso(2024, 12, 25, 8),
              body |-> "notes", draft |-> FALSE, prerelease |-> FALSE]

RelSpring == [tag_name |-> "v3", name |-> "Three",
              created_at |-> Iso(2024, 3, 8, 0), published_at |-> Iso(2024, 3, 10, 0),
              body |-> "notes", draft |-> FALSE, prerelease |-> FALSE]

\* What the fetch of o/a and of o/b can have returned in the run that wrote
\* the file.
StoredPagesA ==
    { SelectSeq(<<RelStable, RelDraft, RelLate, RelFuture>>, LAMBDA rel : rel \in chosen) :
        chosen \in SUBSET {RelStable, RelDraft, RelLate, RelFuture} }
StoredPagesB == { <<>>, <<RelLate>>, <<RelSpring>> }

StoredFiles ==
    { NoFile } \cup
    { FileOf(CsvLines(MapPage("o", "a", a) \o MapPage("o", "b", b)), 0) :
        a \in StoredPagesA, b \in StoredPagesB }

\* The query strings explored.
StartDates == { NullDate, EmptyDate, JunkDate, DateOnly(2024, 1, 15), Iso(2024, 3, 10, 15) }
EndDates == { NullDate, DateOnly(2024, 1, 15), DateOnly(2024, 3, 10), Iso(2024, 3, 10, 15) }
RepositoryParams == { Null, "", "all", "o/a", "o/x" }
QueryParams ==
    { Params(sd, ed, repo) : sd \in StartDates, ed \in EndDates, repo \in RepositoryParams }

\* The clock some time after the last release of the remote.
LaterTime == NewDate(Iso(2025, 1, 1, 0)).time

InitQuery ==
    /\ started = FALSE
    /\ ticks = 0
    /\ runs = <<>>
    /\ file \in StoredFiles
    /\ writer = 0
    /\ query = NoQuery
    /\ now = StartTime
    /\ traced = FALSE
    /\ answered = Unrecorded

\* Time passes between two requests.
ClockAdvances ==
    /\ query.pc = "idle"
    /\ now < LaterTime
    /\ now' = LaterTime
    /\ UNCHANGED <<traced, answered, started, ticks, runs, file, writer, query>>

NextQuery ==
    \/ \E p \in QueryParams : QueryStart(p)
    \/ QueryRead
    \/ QueryFinish
    \/ QueryClose
    \/ ClockAdvances

SpecQuery == InitQuery /\ [][NextQuery]_vars

\* A client that asks again: the same dates as the request before, any
\* repository parameter, while the responses are recorded.
AsksAgain(p) ==
    IF answered.last = <<>> THEN TRUE
    ELSE /\ p.startDate = answered.last[1].params.startDate
         /\ p.endDate = answered.last[1].params.endDate

\* The record sets the repeated requests are served from.
RepeatFiles ==
    { NoFile } \cup
    { FileOf(CsvLines(MapPage("o", "a", a) \o MapPage("o", "b", b)), 0) :
        a \in { <<>>, <<RelStable>>, <<RelFuture>>, <<RelStable, RelFuture>> },
        b \in StoredPagesB }

InitRepeat ==
    /\ started = FALSE
    /\ ticks = 0
    /\ runs = <<>>
    /\ file \in RepeatFiles
    /\ writer = 0
    /\ query = NoQuery
    /\ now = StartTime
    /\ traced = FALSE
    /\ answered = NoAnswer

NextRepeat ==
    \/ \E p \in QueryParams : AsksAgain(p) /\ QueryStart(p)
    \/ QueryRead
    \/ QueryFinish
    \/ QueryClose
    \/ ClockAdvances

SpecRepeat == InitRepeat /\ [][NextRepeat]_vars

-----------------------------------------------------------------------------
(* Date filter properties *)

Given(s) == s.k \notin {"null", "empty"}
Parsable(s) == s.k \in {"iso", "date"}
Instant(s) == DaysFromCivil(s.y, s.m, s.d) * 24 + s.h

\* The repository parameter selects the record (no parameter and "all": any).
RepositoryMatches(p, rec) == p.repository \in {Null, "", "all"} \/ rec.repository = p.repository

\* C9: with startDate or endDate given, the records retained are exactly
\* those whose publishedAt instant t has start <= t <= end (and that pass the
\* repository filter), where start is startDate, or the epoch when startDate
\* is absent, and end is endDate, or the current time when endDate is absent.
C9_DateFilterInclusive ==
    LET p == query.params
        start == IF Given(p.startDate) THEN Instant(p.startDate) ELSE 0
        end == IF Given(p.endDate) THEN Instant(p.endDate) ELSE now
        Retained(rec) ==
            /\ Parsable(rec.published_at)
            /\ start <= Instant(rec.published_at)
            /\ Instant(rec.published_at) <= end
            /\ RepositoryMatches(p, rec)
    IN  (/\ query.pc = "done" /\ query.status = 200 /\ query.data.exists
         /\ Given(p.startDate) \/ Given(p.endDate)
         /\ Given(p.startDate) => Parsable(p.startDate)
         /\ Given(p.endDate) => Parsable(p.endDate))
        => query.releases = SelectSeq(RecordsOf(query.data), Retained)

\* Both bounds are given, a record published exactly at startDate and one
\* published exactly at endDate are retained, and another record is dropped.
C9_Witness ==
    /\ query.pc = "done" /\ query.status = 200 /\ query.data.exists
    /\ query.params.startDate = DateOnly(2024, 1, 15)
    /\ query.params.endDate = Iso(2024, 3, 10, 15)
    /\ \E j \in DOMAIN query.releases :
          Instant(query.releases[j].published_at) = Instant(query.params.startDate)
    /\ \E j \in DOMAIN query.releases :
          Instant(query.releases[j].published_at) = Instant(query.params.endDate)
    /\ Len(query.releases) < Len(RecordsOf(query.data))

\* C10: an endDate given as a calendar date YYYY-MM-DD keeps every record
\* published at any time of that day (that passes the lower bound and the
\* repository filter).
C10_EndDateWholeDay ==
    LET p == query.params
        start == IF Given(p.startDate) THEN Instant(p.startDate) ELSE 0
        records == RecordsOf(query.data)
    IN  (/\ query.pc = "done" /\ query.status = 200 /\ query.data.exists
         /\ p.endDate.k = "date"
         /\ Given(p.startDate) => Parsable(p.startDate))
        => \A j \in DOMAIN records :
              LET at == records[j].published_at IN
              (/\ Parsable(at)
               /\ at.y = p.endDate.y /\ at.m = p.endDate.m /\ at.d = p.endDate.d
               /\ start <= Instant(at)
               /\ RepositoryMatches(p, records[j]))
              => \E i \in DOMAIN query.releases : query.releases[i] = records[j]

-----------------------------------------------------------------------------
(* Records without a usable publication date *)

Dated(records) == SelectSeq(records, LAMBDA rec : Parsable(rec.published_at))
Undated(records) == SelectSeq(records, LAMBDA rec : ~Parsable(rec.published_at))

\* round(span / (n - 1) days), half up, over the dated records alone; 0 with
\* fewer than two of them.
AverageInterval(records) ==
    LET instants == { Instant(Dated(records)[j].published_at) : j \in DOMAIN Dated(records) }
        n == Len(Dated(records))
        latest == CHOOSE t \in instants : \A u \in instants : u <= t
        earliest == CHOOSE t \in instants : \A u \in instants : t <= u
        span == latest - earliest
        unit == 24 * (n - 1)
    IN  IF n < 2 THEN 0
        ELSE CHOOSE k \in 0..(span + 1) :
                2 * unit * k <= 2 * span + unit /\ 2 * span + unit < 2 * unit * (k + 1)

\* C11: when the stored set holds records whose publishedAt is missing or
\* does not parse, the query still succeeds, no such record is in the
\* filtered set once startDate or endDate is given, and the
\* averageReleaseInterval is the one of the dated records alone.
C11_UndatedRecordsHarmless ==
    (query.pc = "done" /\ query.data.exists /\ Undated(RecordsOf(query.data)) # <<>>) =>
        /\ query.status = 200
        /\ (Given(query.params.startDate) \/ Given(query.params.endDate)) =>
              Undated(query.releases) = <<>>
        /\ query.body.statistics.averageReleaseInterval = AverageInterval(query.releases)

\* A date-filtered query over a set with an undated record kept two dated
\* records and dropped the undated one.
C11_Witness ==
    /\ query.pc = "done" /\ query.status = 200 /\ query.data.exists
    /\ Undated(RecordsOf(query.data)) # <<>>
    /\ Given(query.params.startDate)
    /\ Len(query.releases) >= 2
    /\ query.body.statistics.averageReleaseInterval > 0

-----------------------------------------------------------------------------
(* Repository filter properties: a request compared with the request before
   it, made at the same clock time for the same dates without a repository
   parameter *)

Last == answered.last[1]

AfterUnfiltered ==
    /\ query.pc = "done"
    /\ answered.last # <<>>
    /\ Last.params.repository = Null
    /\ Last.params.startDate = query.params.startDate
    /\ Last.params.endDate = query.params.endDate
    /\ Last.data = query.data
    /\ Last.at = now

\* The filtered set is the one of the request before restricted to the
\* repository asked for, and `repositories` are its distinct values, at most one.
RestrictedToRepository ==
    /\ query.releases =
         SelectSeq(Last.releases, LAMBDA rec : rec.repository = query.params.repository)
    /\ query.status = 200
    /\ { query.body.repositories[j] : j \in DOMAIN query.body.repositories } =
         { query.releases[j].repository : j \in DOMAIN query.releases }
    /\ Len(query.body.repositories) <= 1

SameAnswer == query.status = Last.status /\ query.body = Last.body

\* C12 (as stated): repository = "all" gives the payload of the request
\* without a repository parameter; any other value restricts the filtered set
\* to the records of that repository and `repositories` to at most one entry.
C12_RepositoryFilter ==
    AfterUnfiltered =>
        /\ query.params.repository = "all" => SameAnswer
        /\ query.params.repository \notin {Null, "all"} => RestrictedToRepository

\* C12 (amended): "all" and the empty value give the payload of the request
\* without a repository parameter; any other, non-empty value restricts the
\* filtered set to the records of that repository and `repositories` to at
\* most one entry.
C12_RepositoryFilterNonEmpty ==
    AfterUnfiltered =>
        /\ query.params.repository \in {"all", ""} => SameAnswer
        /\ query.params.repository \notin {Null, "", "all"} => RestrictedToRepository

\* A request for o/a after an unfiltered one that had records of two
\* repositories: some records are kept, some dropped.
C12_Witness ==
    /\ AfterUnfiltered
    /\ query.params.repository = "o/a"
    /\ Len(Last.body.repositories) = 2
    /\ query.releases # <<>>
    /\ Len(query.releases) < Len(Last.releases)
    /\ query.body.repositories = <<"o/a">>

-----------------------------------------------------------------------------
(* Aggregation properties *)

Answered200 == query.pc = "done" /\ query.status = 200

\* publishedYear-publishedMonth of a stored record
StoredMonth(rec) == rec.published_year \o "-" \o rec.published_month

\* C13: every row of monthlyData has, for every repository of `repositories`,
\* a column whose value is the number of filtered records of that repository
\* with the row's publishedYear-publishedMonth, 0 included.
C13_MonthlyCounts ==
    Answered200 =>
        \A j \in DOMAIN query.body.monthlyData :
            \A i \in DOMAIN query.body.repositories :
                LET row == query.body.monthlyData[j]
                    repo == query.body.repositories[i]
                IN  /\ repo \in DOMAIN row
                    /\ row[repo] = Len(SelectSeq(query.releases, LAMBDA rec :
                                        rec.repository = repo /\ StoredMonth(rec) = row.month))

\* One row has a 0 for a repository, another counts both repositories.
C13_Witness ==
    /\ Answered200
    /\ Len(query.body.repositories) = 2
    /\ \E j \in DOMAIN query.body.monthlyData :
          LET row == query.body.monthlyData[j] IN row["o/a"] = 1 /\ row["o/b"] = 0
    /\ \E j \in DOMAIN query.body.monthlyData :
          LET row == query.body.monthlyData[j] IN row["o/a"] = 1 /\ row["o/b"] = 1

\* The calendar month of a dated record: its YYYY-MM text and its order.
MonthOf(rec) ==
    LET at == rec.published_at IN
    [text |-> ToString(at.y) \o "-" \o (IF at.m < 10 THEN "0" ELSE "") \o ToString(at.m),
     order |-> at.y * 12 + at.m]

\* C14: monthlyData has exactly one row per distinct YYYY-MM month of the
\* filtered records, none for anything else, none twice, and the rows are in
\* strictly ascending order of the month.
C14_OneRowPerMonth ==
    Answered200 =>
        LET rows == query.body.monthlyData
            dated == Dated(query.releases)
            months == { MonthOf(dated[j]) : j \in DOMAIN dated }
        IN  /\ { rows[j].month : j \in DOMAIN rows } = { mo.text : mo \in months }
            /\ Len(rows) = Cardinality(months)
            /\ \A j, k \in DOMAIN rows : \A a, b \in months :
                  (j < k /\ a.text = rows[j].month /\ b.text = rows[k].month)
                  => a.order < b.order

\* The seven weekday labels, index 0 = Sunday ... 6 = Saturday.
WeekdayLabels == <<"Sun", "Mon", "Tue", "Wed", "Thu", "Fri", "Sat">>

\* C15: weekdayData has one entry per weekday value occurring among the
\* filtered records and no other; every entry's name is one of the seven
\* weekday labels and its value the number of filtered records of that weekday.
C15_WeekdayEntries ==
    Answered200 =>
        LET entries == query.body.weekdayData
            occurring == { query.releases[j].weekday : j \in DOMAIN query.releases }
        IN  /\ Len(entries) = Cardinality(occurring)
            /\ \A j \in DOMAIN entries :
                  \E i \in 0..6 : entries[j].name = WeekdayLabels[i + 1]
            /\ \A i \in 0..6 :
                  LET n == Len(SelectSeq(query.releases, LAMBDA rec : rec.weekday = ToString(i)))
                      named == { j \in DOMAIN entries : entries[j].name = WeekdayLabels[i + 1] }
                  IN  IF n = 0 THEN named = {}
                      ELSE Cardinality(named) = 1 /\ \A j \in named : entries[j].value = n

\* C16: averageReleaseInterval is 0 with fewer than two dated records in the
\* filtered set; otherwise it is (latest - earliest publishedAt) in days over
\* (n - 1), rounded, n being the number of dated records; it is 55 for two
\* records published 2024-01-15 and 2024-03-10.
C16_AverageInterval ==
    Answered200 =>
        LET dated == Dated(query.releases)
            average == query.body.statistics.averageReleaseInterval
        IN  /\ Len(dated) < 2 => average = 0
            /\ Len(dated) >= 2 => average = AverageInterval(query.releases)
            /\ (/\ Len(dated) = 2
                /\ dated[1].published_at = Iso(2024, 1, 15, 0)
                /\ dated[2].published_at = Iso(2024, 3, 10, 0)) => average = 55

\* The filtered set has the two records of the example and an undated one.
C16_Witness ==
    /\ Answered200
    /\ Len(query.releases) = 3
    /\ Len(Dated(query.releases)) = 2
    /\ Dated(query.releases)[1].published_at = Iso(2024, 1, 15, 0)
    /\ Dated(query.releases)[2].published_at = Iso(2024, 3, 10, 0)
    /\ query.body.statistics.averageReleaseInterval = 55

-----------------------------------------------------------------------------
(* Repeated requests *)

\* The request answered now repeats the one before it on the same stored text.
Repeated ==
    /\ query.pc = "done"
    /\ answered.last # <<>>
    /\ Last.params = query.params
    /\ Last.data = query.data

\* A stored record published after the request before and not after this one.
PublishedMeanwhile ==
    \E j \in DOMAIN Dated(RecordsOf(query.data)) :
        LET t == Instant(Dated(RecordsOf(query.data))[j].published_at)
        IN  Last.at < t /\ t <= now

\* C17 (as stated): the same request on an unchanged store gets the same
\* payload, whatever the parameters and the time between the two requests.
C17_Idempotent == Repeated => SameAnswer

\* C17 (amended): the same request on an unchanged store gets the same payload
\* when endDate is given or startDate is not; with startDate given and
\* endDate omitted the upper bound is the time of the request, and the
\* payloads are the same when no stored record was published after the first
\* request and not after the second.
C17_IdempotentUpToNow ==
    (/\ Repeated
     /\ \/ Given(query.params.endDate)
        \/ ~Given(query.params.startDate)
        \/ ~PublishedMeanwhile)
    => SameAnswer

\* The same request was made again later with startDate and no endDate, on a
\* store without a record published in between, and got the same records.
C17_Witness ==
    /\ Repeated
    /\ Given(query.params.startDate) /\ ~Given(query.params.endDate)
    /\ Last.at < now
    /\ ~PublishedMeanwhile
    /\ query.releases # <<>>
    /\ SameAnswer

-----------------------------------------------------------------------------
(* Response shape *)

PayloadFields == {"monthlyData", "weekdayData", "releaseTypeData", "statistics", "repositories"}

\* C18: a request ends with the complete payload (status 200, the five
\* fields) or with the generic error (status 500, none of the five fields),
\* also when the stored text does not parse.
C18_PayloadOrError ==
    query.pc = "done" =>
        \/ query.status = 200 /\ DOMAIN query.body = PayloadFields
        \/ /\ query.status = 500
           /\ DOMAIN query.body = {"error"}
           /\ DOMAIN query.body \cap PayloadFields = {}

\* A request read a text cut short by a failed write and got the error.
C18_Witness ==
    /\ query.pc = "done"
    /\ query.status = 500
    /\ query.data.torn
    /\ ~ParseCSV(query.data).ok

-----------------------------------------------------------------------------
(* Ingested records *)

\* Every record a run holds: returned by its fetches or in the fetch in progress.
Ingested(run) == run.all \o run.acc

WeekdayTexts == { ToString(i) : i \in 0..6 }

\* Day of the week of a calendar date, 0 = Sunday; 2024-01-14 was a Sunday.
DayOfWeek(y, m, d) == (DaysFromCivil(y, m, d) - DaysFromCivil(2024, 1, 14)) % 7

\* C19 (as stated): every record of an ingestion run has weekday in 0..6,
\* also when the remote entry has no publishedAt or one that does not parse.
C19_WeekdayInRange ==
    \A r \in DOMAIN runs : \A j \in DOMAIN Ingested(runs[r]) :
        Ingested(runs[r])[j].weekday \in WeekdayTexts

\* C19 (amended): a record built from an entry whose publishedAt parses has
\* the weekday of that date, in 0..6 with 0 = Sunday; a record built from an
\* entry without a parsable publishedAt has the weekday NaN.
C19_WeekdayOfDated ==
    \A r \in DOMAIN runs : \A j \in DOMAIN Ingested(runs[r]) :
        LET rec == Ingested(runs[r])[j]
            at == rec.published_at
        IN  IF Parsable(at)
            THEN rec.weekday \in WeekdayTexts
                 /\ rec.weekday = ToString(DayOfWeek(at.y, at.m, at.d))
            ELSE rec.weekday = "NaN"

\* A run wrote a record published on a Monday and a record of a draft.
C19_Witness ==
    \E r \in DOMAIN runs :
        /\ runs[r].outcome = "written"
        /\ \E j \in DOMAIN runs[r].all :
              runs[r].all[j].published_at = Iso(2024, 1, 15, 0) /\ runs[r].all[j].weekday = "1"
        /\ \E j \in DOMAIN runs[r].all :
              runs[r].all[j].published_at = EmptyDate /\ runs[r].all[j].weekday = "NaN"

\* C20: the records a run writes are unique by (repository, tag_name), also
\* when the remote list changes between two page requests of a fetch.
C20_UniqueTags ==
    \A r \in DOMAIN runs :
        runs[r].pc \in {"writing", "done"} =>
            \A i, j \in DOMAIN runs[r].all :
                (/\ runs[r].all[i].repository = runs[r].all[j].repository
                 /\ runs[r].all[i].tag_name = runs[r].all[j].tag_name) => i = j

-----------------------------------------------------------------------------
(* Release types *)

\* C21: the three releaseTypeData counts are those of independent predicates
\* over the filtered set (ordinary: neither prerelease nor draft; prerelease;
\* draft), so their sum is totalReleases plus the number of records that are
\* both prerelease and draft, and statistics.preReleases is the prerelease count.
C21_ReleaseTypeCounts ==
    Answered200 =>
        LET types == query.body.releaseTypeData
            stats == query.body.statistics
            ordinary == Len(SelectSeq(query.releases, LAMBDA rec :
                            rec.is_prerelease # "true" /\ rec.is_draft # "true"))
            pre == Len(SelectSeq(query.releases, LAMBDA rec : rec.is_prerelease = "true"))
            drafts == Len(SelectSeq(query.releases, LAMBDA rec : rec.is_draft = "true"))
            both == Len(SelectSeq(query.releases, LAMBDA rec :
                            rec.is_prerelease = "true" /\ rec.is_draft = "true"))
        IN  /\ Len(types) = 3
            /\ types[1].value = ordinary
            /\ types[2].value = pre
            /\ types[3].value = drafts
            /\ types[1].value + types[2].value + types[3].value = stats.totalReleases + both
            /\ stats.preReleases = types[2].value

-----------------------------------------------------------------------------
(* Derived fields of the ingested records *)

RECURSIVE Entries(_)
\* The remote entries of the pages, in page order.
Entries(pages) == IF pages = <<>> THEN <<>> ELSE Head(pages) \o Entries(Tail(pages))

\* Length of the release body, 0 when the body is absent.
NoteLength(entry) == IF entry.body = Null THEN 0 ELSE Len(entry.body)

\* C22: every record a fetch returns has isWeekend = (weekday is 0 or 6) and
\* hasNote = (noteLength > 0), noteLength being the length of the body of the
\* remote entry it was built from, 0 when there is no body.
C22_WeekendAndNote ==
    traced => \A r \in DOMAIN runs : \A i \in DOMAIN runs[r].rets :
        LET ret == runs[r].rets[i]
            entries == Entries(ret.got)
        IN  ~ret.failed =>
              /\ Len(ret.records) = Len(entries)
              /\ \A j \in DOMAIN ret.records :
                    LET rec == ret.records[j] IN
                    /\ rec.is_weekend = (IF rec.weekday \in {"0", "6"} THEN "true" ELSE "false")
                    /\ rec.release_note_length = ToString(NoteLength(entries[j]))
                    /\ rec.has_release_note =
                          (IF NoteLength(entries[j]) > 0 THEN "true" ELSE "false")

\* One fetch returned a record published on a Sunday with an empty body and
\* one published on a Monday with a body of five characters.
C22_Witness ==
    \E r \in DOMAIN runs : \E i \in DOMAIN runs[r].rets :
        LET records == runs[r].rets[i].records IN
        /\ \E j \in DOMAIN records :
              /\ records[j].weekday = "0" /\ records[j].is_weekend = "true"
              /\ records[j].has_release_note = "false"
        /\ \E j \in DOMAIN records :
              /\ records[j].weekday = "1" /\ records[j].is_weekend = "false"
              /\ records[j].has_release_note = "true" /\ records[j].release_note_length = "5"

-----------------------------------------------------------------------------
(* Overlapping runs *)

\* C23: once every started run has written, the file holds the output of the
\* run that started last: a run that started earlier and was still in
\* progress when the later one started does not overwrite it.
C23_NewestRunWins ==
    (/\ Len(runs) >= 2
     /\ \A r \in DOMAIN runs : runs[r].outcome = "written")
    => Text(file) = Text(FileOf(CsvLines(runs[Len(runs)].all), Len(runs)))

-----------------------------------------------------------------------------
(* Free text in the store: one run against a remote whose tag names and
   release names hold commas, line breaks and quotes *)

RelMarks == [tag_name |-> "v6,final", name |-> "Line one\nline two",
             created_at |-> Iso(2024, 5, 1, 0), published_at |-> Iso(2024, 5, 2, 0),
             body |-> "notes", draft |-> FALSE, prerelease |-> FALSE]
RelQuoted == [tag_name |-> "v7", name |-> "The \"big\" one",
              created_at |-> Iso(2024, 5, 3, 0), published_at |-> Iso(2024, 5, 4, 0),
              body |-> "notes", draft |-> FALSE, prerelease |-> FALSE]

PageChoicesText == { <<RelMarks>>, <<RelQuoted>> }

NextText ==
    \/ StartScheduler
    \/ \E r \in DOMAIN runs : ListReleasesPage(r, PageChoicesText, MaxPagesOverlap)
    \/ \E r \in DOMAIN runs : PacingDelayOver(r)
    \/ \E r \in DOMAIN runs : ListReleasesEmpty(r)
    \/ \E r \in DOMAIN runs : ListReleasesFails(r)
    \/ \E r \in DOMAIN runs : WriteFileData(r)
    \/ QueryStart(NoParams)
    \/ QueryRead
    \/ QueryFinish
    \/ QueryClose

SpecText == Init /\ [][NextText]_vars

\* The request read the whole text that run r wrote.
ReadOutputOf(r) ==
    /\ query.pc = "done"
    /\ runs[r].outcome = "written"
    /\ query.data = FileOf(CsvLines(runs[r].all), r)

\* C24: a request that reads the text a run wrote gets, from the parse, the
\* records of that run: as many, in the same order, with the same value in
\* every field, whatever characters the field values hold.
C24_RoundTrip ==
    \A r \in DOMAIN runs :
        ReadOutputOf(r) =>
            /\ query.status = 200
            /\ ParseCSV(query.data).ok
            /\ query.releases = runs[r].all

-----------------------------------------------------------------------------------------------------------------------------------------------------
(* Termination: one run under the scheduling of the event loop.  A
   pacing timer that is armed fires, and writeFileSync, once entered, returns.
   A pending listReleases call returns; a repository has finitely many
   releases, so the calls of one fetch return a non-empty page at most
   maxPages times, and a call that stays pending is answered by the empty
   page or by a failure. *)

\* setTimeout(resolve, 1000): the timer of some sleeping fetch fires.
TimerFires == \E r \in DOMAIN runs : PacingDelayOver(r)

\* writeFileSync is synchronous: a write that has truncated the file goes on.
WriteReturns == \E r \in DOMAIN runs : WriteFileData(r)

\* A pending listReleases call that can no longer bring releases returns.
RequestReturns == \E r \in DOMAIN runs : ListReleasesEmpty(r) \/ ListReleasesFails(r)

\* One run of updateCSV, started by startScheduler, over pages of any content.
NextLive ==
    \/ StartScheduler
    \/ \E r \in DOMAIN runs : ListReleasesPage(r, PageChoices, MaxPages)
    \/ TimerFires
    \/ RequestReturns
    \/ WriteReturns

SpecLive ==
    /\ Init
    /\ [][NextLive]_vars
    /\ WF_vars(TimerFires)
    /\ WF_vars(WriteReturns)
    /\ WF_vars(RequestReturns)

\* The fetch of repository i by run r has returned.
Returned(r, i) == \E k \in DOMAIN runs[r].log : runs[r].log[k] = <<"return", i>>

\* Run r has ended: every fetch has returned and writeFileSync was called
\* exactly once, the write done or failed.
Over(r) ==
    /\ runs[r].pc = "done"
    /\ \A i \in DOMAIN Repositories : Returned(r, i)
    /\ runs[r].writes = 1
    /\ runs[r].outcome \in {"written", "writeFailed"}

\* C25: every fetch eventually returns and every started run eventually ends
\* after exactly one write attempt: again and again, whatever runs have been
\* started so far have all ended (a run that has ended stays so).
C25_RunsTerminate == []<>(\A r \in DOMAIN runs : Over(r))

\* A run has ended after a non-empty page, with a failed write.
C25_Witness ==
    /\ runs # <<>>
    /\ \A r \in DOMAIN runs : Over(r)
    /\ \E r \in DOMAIN runs : runs[r].all # <<>> /\ runs[r].outcome = "writeFailed"

====
